---- MODULE Spec2Model ----
(***************************************************************************)
(* Organization deletion workflow of cal.com                               *)
(* (packages/trpc/server/routers/viewer/organizations/adminDelete.handler) *)
(* against the relational store it writes to (Team, Membership, users      *)
(* tables with the constraints of the organizations migration) and the     *)
(* domain registry it releases the slug from.                              *)
(*                                                                         *)
(* Every `await` of the handler is one atomic step of one invocation;      *)
(* several invocations interleave at these suspension points.              *)
(*                                                                         *)
(* Encoding of values:                                                     *)
(*   - a nullable column or field is a sequence of length 0 (null) or 1;   *)
(*   - a username is a sequence of one-character strings, so that the      *)
(*     template literal `${username || ""}-${id}` is a real concatenation; *)
(*   - slugs and names are never concatenated and stay plain strings.      *)
(***************************************************************************)
EXTENDS Integers, Sequences, FiniteSets, TLC

(***************************************************************************)
(* Bounds of the model.                                                    *)
(***************************************************************************)
NumInvocations == 2

Invocations == 1..NumInvocations
\* The users table has two rows; user 1 is also a member of team 2.
UserIds == {1, 2}
SharedUserIds == <<1>>
\* Team 1 is always an organization; team 2 is an organization or a plain
\* team; MissingTeamId identifies no row.
TeamIds == {1, 2}
MissingTeamId == Cardinality(TeamIds) + 1
OrgIdInputs == TeamIds \cup {MissingTeamId}

Null == <<>>
Some(v) == <<v>>

\* Usernames the users table starts with: null, "", "a", "a-1".
InitialUsernames == {Null, Some(<<>>), Some(<<"a">>), Some(<<"a", "-", "1">>)}

VARIABLES
    teams,        \* Team table: id -> row, for the rows that exist
    users,        \* users table: id -> row
    memberships,  \* Membership table: sequence of rows in table order
    domains,      \* slugs registered with the domain registry
    inv,          \* per invocation: position, input, locals, result
    calls,        \* history, per invocation: the mutating calls it has issued
    deleted,      \* history: what each successful team.delete removed
    interfered    \* history, per invocation: another invocation wrote one of
                  \* its member rows or removed its team after its lookup

vars == <<teams, users, memberships, domains, inv, calls, deleted, interfered>>

(***************************************************************************)
(* Pure helpers                                                            *)
(***************************************************************************)
DigitChar == <<"0", "1", "2", "3", "4", "5", "6", "7", "8", "9">>

\* String(n) of a non-negative integer, as the template literal prints it.
RECURSIVE NumberToString(_)
NumberToString(n) ==
    IF n < 10 THEN <<DigitChar[n + 1]>>
    ELSE NumberToString(n \div 10) \o <<DigitChar[(n % 10) + 1]>>

\* JavaScript truthiness of a nullable string: null and "" are falsy.
TruthySlug(s) == s # Null /\ s[1] # ""
TruthyName(u) == u # Null /\ u[1] # <<>>

\* `${user.username || ""}-${user.id}`
NewUsernameNoSeparator(user) ==
    (IF TruthyName(user.username) THEN user.username[1] ELSE <<>>)
        \o NumberToString(user.id)

NewUsernameKeepsRaw(user) ==
    IF TruthyName(user.username) THEN user.username[1]
    ELSE <<"-">> \o NumberToString(user.id)

NewUsername(user) ==
    (IF TruthyName(user.username) THEN user.username[1] ELSE <<>>)
        \o <<"-">> \o NumberToString(user.id)

\* Members of team t in table order, each with its user row (include:
\* members.select.user).
RECURSIVE MembersOf(_, _, _)
MembersOf(t, ms, us) ==
    IF ms = <<>> THEN <<>>
    ELSE LET rest == MembersOf(t, Tail(ms), us)
             m == Head(ms)
         IN IF m.teamId = t
            THEN <<[id |-> m.userId, username |-> us[m.userId].username]>> \o rest
            ELSE rest

\* prisma.team.findUnique({where: {id, metadata.isOrganization = true},
\*                         include: members.user})
FindOrgIgnoringFlag(orgId) ==
    IF orgId \in DOMAIN teams
    THEN Some([id |-> orgId,
               name |-> teams[orgId].name,
               slug |-> teams[orgId].slug,
               members |-> MembersOf(orgId, memberships, users)])
    ELSE Null

FindOrg(orgId) ==
    IF orgId \in DOMAIN teams /\ teams[orgId].isOrganization
    THEN Some([id |-> orgId,
               name |-> teams[orgId].name,
               slug |-> teams[orgId].slug,
               members |-> MembersOf(orgId, memberships, users)])
    ELSE Null

\* users_username_organizationId_key: no two rows agree on a non-null
\* (username, organizationId).  NULLs are distinct in a unique index.
UniqueUsernameOrganizationId(us) ==
    \A a, b \in DOMAIN us :
        (a # b /\ us[a].username # Null /\ us[a].organizationId # Null)
            => ~(us[a].username = us[b].username
                 /\ us[a].organizationId = us[b].organizationId)

\* Rows removed with team t: the team and, through Team_parentId_fkey
\* ON DELETE CASCADE, every team below it.
RECURSIVE Subtree(_, _)
Subtree(ts, tb) ==
    LET more == {c \in DOMAIN tb : tb[c].parentId # Null /\ tb[c].parentId[1] \in ts}
    IN IF more \subseteq ts THEN ts ELSE Subtree(ts \cup more, tb)

\* Membership rows are removed with their team.
CascadeMemberships(ms, gone) == SelectSeq(ms, LAMBDA m : m.teamId \notin gone)

\* users_organizationId_fkey ON DELETE SET NULL
SetNullOrganization(us, gone) ==
    [u \in DOMAIN us |->
        IF us[u].organizationId # Null /\ us[u].organizationId[1] \in gone
        THEN [us[u] EXCEPT !.organizationId = Null]
        ELSE us[u]]

UserIdsOf(members) == {members[k].id : k \in 1..Len(members)}
MemberIdsOfTeam(t, ms) == {ms[k].userId : k \in {j \in 1..Len(ms) : ms[j].teamId = t}}

(***************************************************************************)
(* Initial states: a store that satisfies its own constraints, and no     *)
(* invocation started.                                                     *)
(***************************************************************************)
\* Sequences over S without repetition (a team lists a user at most once).
ListsOver(S) ==
    UNION {{f \in [1..n -> S] : \A a, b \in 1..n : a # b => f[a] # f[b]} :
             n \in 0..Cardinality(S)}

MembershipRows(t, list) == [k \in 1..Len(list) |-> [teamId |-> t, userId |-> list[k]]]

\* Team tables: team 1 is an organization; team 2 is a second organization
\* or a plain team placed under team 1.  Between them the organizations
\* carry each kind of slug: null, "" and non-empty.
OrgRow(name, slug) ==
    [name |-> name, slug |-> slug, isOrganization |-> TRUE, parentId |-> Null]
SubTeamRow(name, slug, parent) ==
    [name |-> name, slug |-> slug, isOrganization |-> FALSE, parentId |-> Some(parent)]

TeamTables ==
    {(1 :> OrgRow("Acme", Some("acme"))) @@ (2 :> OrgRow("Beta", Null)),
     (1 :> OrgRow("Acme", Some(""))) @@ (2 :> SubTeamRow("Beta", Some("beta"), 1))}

IdleInvocation ==
    [pc |-> "idle", orgId |-> 0, foundOrg |-> Null, i |-> 0,
     error |-> "none", result |-> Null]

Init ==
    /\ teams \in TeamTables
    /\ \E l1 \in ListsOver(UserIds), names \in [UserIds -> InitialUsernames] :
          /\ memberships = MembershipRows(1, l1) \o MembershipRows(2, SharedUserIds)
          \* a user outside every team plays no part: its username is null
          /\ \A u \in UserIds :
                (\A k \in 1..Len(l1 \o SharedUserIds) : (l1 \o SharedUserIds)[k] # u)
                    => names[u] = Null
          \* a member of organization 1 carries its id as organizationId
          /\ users = [u \in UserIds |->
                        [username |-> names[u],
                         organizationId |-> IF \E k \in 1..Len(l1) : l1[k] = u
                                            THEN Some(1) ELSE Null]]
    /\ UniqueUsernameOrganizationId(users)
    /\ domains = {teams[t].slug[1] : t \in {x \in DOMAIN teams : TruthySlug(teams[x].slug)}}
    /\ inv = [p \in Invocations |-> IdleInvocation]
    /\ calls = [p \in Invocations |-> <<>>]
    /\ deleted = {}
    /\ interfered = [p \in Invocations |-> FALSE]

(***************************************************************************)
(* adminDeleteHandler, one action per await.                               *)
(***************************************************************************)
DomainCall(slug, ok) ==
    [op |-> "deleteDomain", slug |-> slug, id |-> 0, username |-> <<>>, ok |-> ok]
UpdateCall(id, name, ok) ==
    [op |-> "user.update", slug |-> "", id |-> id, username |-> name, ok |-> ok]
DeleteCall(id, ok) ==
    [op |-> "team.delete", slug |-> "", id |-> id, username |-> <<>>, ok |-> ok]

InFlight(q) == inv[q].pc \in {"deleteDomain", "renameUsers", "teamDelete"}

\* Where the handler suspends next once the slug has been dealt with: the
\* first update of renameUsers, or team.delete when there is no member.
PcAfterDomain(org) == IF Len(org.members) > 0 THEN "renameUsers" ELSE "teamDelete"

\* After the lookup: `if (!foundOrg) throw`, then `if (foundOrg.slug)`.
PcAfterFindSkipRelease(found) ==
    IF found = Null THEN "failed" ELSE PcAfterDomain(found[1])

PcAfterFind(found) ==
    IF found = Null THEN "failed"
    ELSE IF TruthySlug(found[1].slug) THEN "deleteDomain"
    ELSE PcAfterDomain(found[1])

\* lines 17-42: findUnique, the FORBIDDEN rejection, the slug test.
FindUnique(p) ==
    /\ inv[p].pc = "idle"
    /\ \E orgId \in OrgIdInputs :
          LET found == FindOrg(orgId)
          IN inv' = [inv EXCEPT ![p] =
                        [@ EXCEPT !.orgId = orgId,
                                  !.foundOrg = found,
                                  !.i = 1,
                                  !.pc = PcAfterFind(found),
                                  !.error = IF found = Null THEN "FORBIDDEN" ELSE "none"]]
    /\ UNCHANGED <<teams, users, memberships, domains, calls, deleted, interfered>>

\* The invocation after `await deleteDomain(...)` returned (ok) or threw.
AfterDeleteDomainSwallowsError(rec, ok) ==
    [rec EXCEPT !.pc = PcAfterDomain(rec.foundOrg[1])]

AfterDeleteDomain(rec, ok) ==
    IF ok THEN [rec EXCEPT !.pc = PcAfterDomain(rec.foundOrg[1])]
    ELSE [rec EXCEPT !.pc = "failed", !.error = "deleteDomain"]

\* The registry once the slug has been released.
ReleaseDomain(registry, slug) == registry \ {slug}

\* line 41: await deleteDomain(foundOrg.slug); a failure propagates.
DeleteDomain(p) ==
    /\ inv[p].pc = "deleteDomain"
    /\ LET slug == inv[p].foundOrg[1].slug[1]
       IN \E ok \in BOOLEAN :
            /\ calls' = [calls EXCEPT ![p] = Append(@, DomainCall(slug, ok))]
            /\ domains' = IF ok THEN ReleaseDomain(domains, slug) ELSE domains
            /\ inv' = [inv EXCEPT ![p] = AfterDeleteDomain(@, ok)]
    /\ UNCHANGED <<teams, users, memberships, deleted, interfered>>

\* The invocation after one `await prisma.user.update(...)` of the loop
\* returned (ok) or threw.
AfterUserUpdateContinuesOnError(rec, ok) ==
    [rec EXCEPT !.i = @ + 1,
                !.pc = IF rec.i = Len(rec.foundOrg[1].members)
                       THEN "teamDelete" ELSE "renameUsers"]

AfterUserUpdate(rec, ok) ==
    IF ok THEN [rec EXCEPT !.i = @ + 1,
                           !.pc = IF rec.i = Len(rec.foundOrg[1].members)
                                  THEN "teamDelete" ELSE "renameUsers"]
    ELSE [rec EXCEPT !.pc = "failed", !.error = "user.update"]

\* lines 59-70: one iteration of the loop of renameUsers.  The update is
\* rejected when the store fails, when the row is gone, or when the new
\* row would break users_username_organizationId_key.
UserUpdate(p) ==
    /\ inv[p].pc = "renameUsers"
    /\ LET user == inv[p].foundOrg[1].members[inv[p].i]
           name == NewUsername(user)
           after == [users EXCEPT ![user.id].username = Some(name)]
       IN \E storeOk \in BOOLEAN :
            LET ok == storeOk /\ user.id \in DOMAIN users
                             /\ UniqueUsernameOrganizationId(after)
            IN /\ calls' = [calls EXCEPT ![p] = Append(@, UpdateCall(user.id, name, ok))]
               /\ users' = IF ok THEN after ELSE users
               /\ inv' = [inv EXCEPT ![p] = AfterUserUpdate(@, ok)]
               /\ interfered' =
                    [q \in DOMAIN inv |->
                        interfered[q]
                        \/ (ok /\ q # p /\ InFlight(q)
                               /\ user.id \in UserIdsOf(inv[q].foundOrg[1].members))]
    /\ UNCHANGED <<teams, memberships, domains, deleted>>

\* prisma.team.delete({where: {id}}) throws when no row has that id.
DeleteSucceedsWhenMissing(storeOk, orgId, tb) == storeOk

DeleteSucceeds(storeOk, orgId, tb) == storeOk /\ orgId \in DOMAIN tb

\* The Team table without the rows of `gone`.
RemoveTeamsKeepsRows(tb, gone) == tb

RemoveTeams(tb, gone) == [t \in DOMAIN tb \ gone |-> tb[t]]

\* The invocation after `await prisma.team.delete(...)` returned (ok) or
\* threw: lines 51-54 build the success result.
AfterTeamDeleteSwallowsError(rec, ok) ==
    [rec EXCEPT !.pc = "done",
                !.result = Some([ok |-> TRUE,
                                 message |-> <<"Organization ", rec.foundOrg[1].name,
                                               " deleted.">>])]

AfterTeamDelete(rec, ok) ==
    IF ok THEN [rec EXCEPT !.pc = "done",
                           !.result = Some([ok |-> TRUE,
                                            message |-> <<"Organization ",
                                                          rec.foundOrg[1].name,
                                                          " deleted.">>])]
    ELSE [rec EXCEPT !.pc = "failed", !.error = "team.delete"]

\* lines 45-54: team.delete by id with the store's cascades, then the
\* success result.
TeamDelete(p) ==
    /\ inv[p].pc = "teamDelete"
    /\ LET orgId == inv[p].orgId
       IN \E storeOk \in BOOLEAN :
            LET ok == DeleteSucceeds(storeOk, orgId, teams)
                gone == Subtree({orgId}, teams)
            IN /\ calls' = [calls EXCEPT ![p] = Append(@, DeleteCall(orgId, ok))]
               /\ teams' = IF ok THEN RemoveTeams(teams, gone) ELSE teams
               /\ memberships' = IF ok THEN CascadeMemberships(memberships, gone)
                                 ELSE memberships
               /\ users' = IF ok THEN SetNullOrganization(users, gone) ELSE users
               /\ deleted' = IF ok
                             THEN deleted \cup
                                    {[team |-> orgId, by |-> p,
                                      members |-> MemberIdsOfTeam(orgId, memberships)]}
                             ELSE deleted
               /\ inv' = [inv EXCEPT ![p] = AfterTeamDelete(@, ok)]
               /\ interfered' =
                    [q \in DOMAIN inv |->
                        interfered[q]
                        \/ (ok /\ q # p /\ InFlight(q) /\ inv[q].orgId \in gone)]
    /\ UNCHANGED domains

Next ==
    \/ \E p \in DOMAIN inv : FindUnique(p)
    \/ \E p \in DOMAIN inv : DeleteDomain(p)
    \/ \E p \in DOMAIN inv : UserUpdate(p)
    \/ \E p \in DOMAIN inv : TeamDelete(p)

Spec == Init /\ [][Next]_vars

(***************************************************************************)
(* A second specification with one more invocation than Spec, over stores *)
(* with two organizations that share user 1: the smallest setting in which *)
(* an invocation holding a stale read writes after two others have each    *)
(* renamed the same user.                                                  *)
(***************************************************************************)
RaceInvocations == 1..(NumInvocations + 1)

InitRace ==
    /\ \E slug \in {Null, Some("acme")} :
          teams = (1 :> OrgRow("Acme", slug)) @@ (2 :> OrgRow("Beta", Some("beta")))
    /\ memberships = MembershipRows(1, <<1>>)
    /\ \E name \in InitialUsernames :
          users = [u \in UserIds |->
                     [username |-> IF u = 1 THEN name ELSE Null,
                      organizationId |-> IF u = 1 THEN Some(1) ELSE Null]]
    /\ UniqueUsernameOrganizationId(users)
    /\ domains = {teams[t].slug[1] : t \in {x \in DOMAIN teams : TruthySlug(teams[x].slug)}}
    /\ inv = [p \in RaceInvocations |-> IdleInvocation]
    /\ calls = [p \in RaceInvocations |-> <<>>]
    /\ deleted = {}
    /\ interfered = [p \in RaceInvocations |-> FALSE]

SpecRace == InitRace /\ [][Next]_vars

(***************************************************************************)
(* Vocabulary of the properties                                            *)
(***************************************************************************)
Found(p) == inv[p].foundOrg # Null
Members(p) == inv[p].foundOrg[1].members
Started(p) == inv[p].pc # "idle"
CallsOf(p, op) == SelectSeq(calls[p], LAMBDA c : c.op = op)
LastCall(cs) == cs[Len(cs)]
DeletedTeams == {d.team : d \in deleted}

\* name = raw ++ "-" ++ decimal(id), raw being "" for a null or empty username
IsSuffixedWith(name, username, id) ==
    LET raw == IF username = Null THEN <<>> ELSE username[1]
        digits == NumberToString(id)
    IN /\ Len(name) = Len(raw) + 1 + Len(digits)
       /\ SubSeq(name, 1, Len(raw)) = raw
       /\ name[Len(raw) + 1] = "-"
       /\ SubSeq(name, Len(raw) + 2, Len(name)) = digits

\* the stored username of member m is the rewrite of the username read
HoldsRewrite(us, m) ==
    /\ us[m.id].username # Null
    /\ IsSuffixedWith(us[m.id].username[1], m.username, m.id)

(***************************************************************************)
(* C1.  A lookup of an orgId that is not an existing Team flagged          *)
(* isOrganization ends the invocation with FORBIDDEN in the same step,     *)
(* leaves users, teams, memberships and the domain registry as they were,  *)
(* and the rejected invocation never issues a deleteDomain, user.update or *)
(* team.delete call.                                                       *)
(***************************************************************************)
C1_RejectsWithoutMutation ==
    /\ [][\A p \in DOMAIN inv :
            (inv[p].pc = "idle" /\ inv'[p].pc # "idle"
               /\ ~(inv'[p].orgId \in DOMAIN teams /\ teams[inv'[p].orgId].isOrganization))
            => /\ inv'[p].pc = "failed"
               /\ inv'[p].error = "FORBIDDEN"
               /\ UNCHANGED <<teams, users, memberships, domains>>]_vars
    /\ [](\A p \in DOMAIN inv :
            inv[p].error = "FORBIDDEN" => (inv[p].pc = "failed" /\ calls[p] = <<>>))

\* one invocation rejected for an id without a row, another for a row that
\* is not flagged as an organization
C1_Witness ==
    \E p, q \in DOMAIN inv :
        /\ inv[p].error = "FORBIDDEN" /\ inv[p].orgId = MissingTeamId
        /\ inv[q].error = "FORBIDDEN" /\ inv[q].orgId \in DOMAIN teams
        /\ ~teams[inv[q].orgId].isOrganization

(***************************************************************************)
(* C2.  An invocation that found its organization calls deleteDomain       *)
(* exactly once, with the slug read, as its first mutating call, when the  *)
(* slug is non-empty; it never calls deleteDomain when the slug is null or *)
(* empty.                                                                  *)
(***************************************************************************)
C2_DomainReleasedOnceFirst ==
    \A p \in DOMAIN inv :
        Found(p) =>
            LET slug == inv[p].foundOrg[1].slug
                released == CallsOf(p, "deleteDomain")
            IN IF slug # Null /\ slug[1] # ""
               THEN \/ inv[p].pc = "deleteDomain" /\ calls[p] = <<>>
                    \/ /\ inv[p].pc # "deleteDomain"
                       /\ Len(released) = 1
                       /\ calls[p][1].op = "deleteDomain"
                       /\ calls[p][1].slug = slug[1]
               ELSE released = <<>>

\* one invocation released "acme" and went on to rename; another, on an
\* organization without slug, renamed without any release
C2_Witness ==
    \E p, q \in DOMAIN inv :
        /\ Found(p) /\ inv[p].foundOrg[1].slug = Some("acme")
        /\ Len(calls[p]) >= 2 /\ calls[p][2].op = "user.update"
        /\ Found(q) /\ inv[q].foundOrg[1].slug = Null
        /\ calls[q] # <<>> /\ calls[q][1].op = "user.update"

(***************************************************************************)
(* C3 as stated.  At the step that completes an invocation successfully,   *)
(* every member read by its lookup holds username ++ "-" ++ id.            *)
(***************************************************************************)
C3_Original ==
    [][\A p \in DOMAIN inv :
          (inv[p].pc # "done" /\ inv'[p].pc = "done")
          => \A k \in 1..Len(Members(p)) : HoldsRewrite(users', Members(p)[k])]_vars

(***************************************************************************)
(* C3 amended.  At the step that completes an invocation successfully,     *)
(* every member read by its lookup holds username ++ "-" ++ id, provided   *)
(* no other writer changed one of these members since the lookup.          *)
(***************************************************************************)
C3_RewrittenUnlessInterfered ==
    [][\A p \in DOMAIN inv :
          (inv[p].pc # "done" /\ inv'[p].pc = "done" /\ ~interfered[p])
          => \A k \in 1..Len(Members(p)) : HoldsRewrite(users', Members(p)[k])]_vars

\* a completed, undisturbed invocation whose members had a null and a
\* non-empty username: the rows read "-<id>" and "<name>-<id>"
C3_Witness ==
    \E p \in DOMAIN inv :
        /\ inv[p].pc = "done" /\ ~interfered[p]
        /\ \E j, k \in 1..Len(Members(p)) :
              /\ Members(p)[j].username = Null
              /\ users[Members(p)[j].id].username
                    = Some(<<"-">> \o NumberToString(Members(p)[j].id))
              /\ Members(p)[k].username = Some(<<"a">>)
              /\ users[Members(p)[k].id].username
                    = Some(<<"a", "-">> \o NumberToString(Members(p)[k].id))

(***************************************************************************)
(* C4.  Once an invocation has completed successfully, no Team row has its *)
(* orgId and no Membership row references that Team.                       *)
(***************************************************************************)
C4_TeamAndMembershipsGone ==
    \A p \in DOMAIN inv :
        inv[p].pc = "done"
        => /\ inv[p].orgId \notin DOMAIN teams
           /\ \A k \in 1..Len(memberships) : memberships[k].teamId # inv[p].orgId

\* a completed invocation whose organization had members
C4_Witness ==
    \E p \in DOMAIN inv : inv[p].pc = "done" /\ Len(Members(p)) > 0

(***************************************************************************)
(* C5.  A lookup of an orgId whose organization an earlier invocation has  *)
(* deleted ends in the FORBIDDEN rejection in the same step and changes    *)
(* nothing in the store or the domain registry.                            *)
(***************************************************************************)
C5_SecondInvocationRejected ==
    [][\A p \in DOMAIN inv :
          (inv[p].pc = "idle" /\ inv'[p].pc # "idle" /\ inv'[p].orgId \in DeletedTeams)
          => /\ inv'[p].pc = "failed"
             /\ inv'[p].error = "FORBIDDEN"
             /\ calls'[p] = <<>>
             /\ UNCHANGED <<teams, users, memberships, domains>>]_vars

\* an invocation succeeded and a later one with the same orgId was rejected
C5_Witness ==
    \E p, q \in DOMAIN inv :
        /\ p # q /\ inv[p].pc = "done" /\ inv[q].orgId = inv[p].orgId
        /\ inv[q].error = "FORBIDDEN" /\ calls[q] = <<>>

\* the stored username ends in "-" ++ decimal(id)
EndsWithId(username, id) ==
    /\ username # Null
    /\ LET name == username[1]
           digits == NumberToString(id)
       IN /\ Len(name) >= Len(digits) + 1
          /\ SubSeq(name, Len(name) - Len(digits) + 1, Len(name)) = digits
          /\ name[Len(name) - Len(digits)] = "-"

\* the row of user u as the lookup of invocation p read it
ReadBy(p, u) == {Members(p)[k] : k \in {j \in 1..Len(Members(p)) : Members(p)[j].id = u}}

C7_RewriteNeverCollides ==
    \A p \in DOMAIN inv :
        inv[p].pc = "renameUsers"
        => LET m == Members(p)[inv[p].i]
               name == Some(NewUsername(m))
           IN \A v \in DOMAIN users \ {m.id} :
                ~(/\ users[m.id].organizationId # Null
                  /\ users[v].organizationId = users[m.id].organizationId
                  /\ users[v].username = name)

(***************************************************************************)
(* C8.  A deleteDomain call that fails ends the invocation with that       *)
(* error in the same step, which changes nothing in the store; it is the   *)
(* only call the invocation ever issues, and unless another invocation     *)
(* wrote these rows since the lookup, every member still has the username  *)
(* read and the Team row exists.                                           *)
(***************************************************************************)
C8_FailedReleaseMutatesNothing ==
    /\ [][\A p \in DOMAIN inv :
            (calls'[p] # calls[p] /\ LastCall(calls'[p]).op = "deleteDomain"
               /\ ~LastCall(calls'[p]).ok)
            => /\ inv'[p].pc = "failed"
               /\ inv'[p].error = "deleteDomain"
               /\ UNCHANGED <<teams, users, memberships, domains>>
               /\ ~interfered[p]
                  => /\ inv[p].orgId \in DOMAIN teams'
                     /\ \A k \in 1..Len(Members(p)) :
                          users'[Members(p)[k].id].username = Members(p)[k].username]_vars
    /\ [](\A p \in DOMAIN inv :
            (calls[p] # <<>> /\ calls[p][1].op = "deleteDomain" /\ ~calls[p][1].ok)
            => (Len(calls[p]) = 1 /\ inv[p].pc = "failed"))

\* an invocation on an organization with members failed in deleteDomain
C8_Witness ==
    \E p \in DOMAIN inv :
        /\ inv[p].error = "deleteDomain" /\ Len(Members(p)) > 0
        /\ calls[p] = <<DomainCall(inv[p].foundOrg[1].slug[1], FALSE)>>

\* The calls of an invocation are: the release when there is a slug, then
\* updates of the members in list order of which only the last may have
\* failed, then team.delete only after an update of every member succeeded.
CallsInOrder(p) ==
    LET updates == CallsOf(p, "user.update")
        deletes == CallsOf(p, "team.delete")
        releases == CallsOf(p, "deleteDomain")
    IN /\ Len(updates) <= Len(Members(p))
       /\ \A j \in 1..Len(updates) :
            /\ calls[p][Len(releases) + j] = updates[j]
            /\ updates[j].id = Members(p)[j].id
            /\ j < Len(updates) => updates[j].ok
       /\ Len(deletes) <= 1
       /\ deletes # <<>>
          => /\ LastCall(calls[p]) = deletes[1]
             /\ Len(updates) = Len(Members(p))
             /\ \A j \in 1..Len(updates) : updates[j].ok

\* What the store holds at the step in which the k-th rewrite of p fails.
PartiallyRenamed(p, k) ==
    /\ \A j \in 1..(k - 1) : HoldsRewrite(users', Members(p)[j])
    /\ \A j \in k..Len(Members(p)) :
          users'[Members(p)[j].id].username = Members(p)[j].username
    /\ inv[p].orgId \in DOMAIN teams'
    /\ \A c \in {calls[p][n] : n \in 1..Len(calls[p])} :
          c.op = "deleteDomain" => c.slug \notin domains'

FailsAtRewrite(p) ==
    /\ calls'[p] # calls[p]
    /\ LastCall(calls'[p]).op = "user.update"
    /\ ~LastCall(calls'[p]).ok

(***************************************************************************)
(* C9 as stated.  Rewrites are issued one at a time in list order and      *)
(* team.delete only after all of them succeeded; when the k-th rewrite     *)
(* fails the invocation aborts, and then the first k-1 members hold their  *)
(* rewritten usernames, the k-th and later members the usernames read, the *)
(* released domain stays released and the Team row exists.                 *)
(***************************************************************************)
C9_Original ==
    /\ [](\A p \in DOMAIN inv : Found(p) => CallsInOrder(p))
    /\ [][\A p \in DOMAIN inv :
            FailsAtRewrite(p)
            => /\ inv'[p].pc = "failed"
               /\ inv'[p].error = "user.update"
               /\ PartiallyRenamed(p, inv[p].i)]_vars

(***************************************************************************)
(* C9 amended.  Rewrites are issued one at a time in list order and        *)
(* team.delete only after all of them succeeded; when the k-th rewrite     *)
(* fails the invocation aborts in that step without undoing anything, and  *)
(* then, provided no other invocation rewrote these members or deleted the *)
(* team since the lookup, the first k-1 members hold their rewritten       *)
(* usernames, the k-th and later members the usernames read, the released  *)
(* domain stays released and the Team row exists.                          *)
(***************************************************************************)
C9_AbortsPartiallyRenamed ==
    /\ [](\A p \in DOMAIN inv : Found(p) => CallsInOrder(p))
    /\ [][\A p \in DOMAIN inv :
            FailsAtRewrite(p)
            => /\ inv'[p].pc = "failed"
               /\ inv'[p].error = "user.update"
               /\ UNCHANGED <<teams, users, memberships, domains>>
               /\ ~interfered[p] => PartiallyRenamed(p, inv[p].i)]_vars

\* an undisturbed invocation failed at its second rewrite after releasing
\* the domain: the first member is renamed, the second is not
C9_Witness ==
    \E p \in DOMAIN inv :
        /\ inv[p].error = "user.update" /\ inv[p].i = 2 /\ ~interfered[p]
        /\ calls[p][1].op = "deleteDomain"
        /\ HoldsRewrite(users, Members(p)[1])
        /\ users[Members(p)[2].id].username = Members(p)[2].username
        /\ inv[p].orgId \in DOMAIN teams

(***************************************************************************)
(* C10.  Of the invocations with one orgId at most one returns the success *)
(* result; any other that has ended has failed, with FORBIDDEN when its    *)
(* lookup found nothing, and its team.delete, if it issued one, failed.    *)
(***************************************************************************)
C10_AtMostOneSuccess ==
    \A p, q \in DOMAIN inv :
        (p # q /\ inv[p].pc = "done" /\ Started(q) /\ inv[q].orgId = inv[p].orgId)
        => /\ inv[q].pc # "done"
           /\ inv[q].result = Null
           /\ ~Found(q) => inv[q].error = "FORBIDDEN"
           /\ \A n \in 1..Len(calls[q]) : calls[q][n].op = "team.delete" => ~calls[q][n].ok

\* both orders: the other invocation looked up before the delete and its
\* own team.delete failed
C10_Witness ==
    \E p, q \in DOMAIN inv :
        /\ p # q /\ inv[p].pc = "done" /\ inv[q].orgId = inv[p].orgId
        /\ inv[q].error = "team.delete"
        /\ Len(Members(q)) > 0

====
